---- MODULE Spec2Model ----
(***************************************************************************)
(* Model of the account admin panel (hp/account/admin.py) and of the       *)
(* bootstrap form mixin (hp/bootstrap/forms.py).                           *)
(*                                                                         *)
(* Every admin handler runs synchronously inside one request, so each      *)
(* handler is one action: the whole for-loop of the handler is computed by *)
(* a recursive operator and the action publishes its outcome.  Requests    *)
(* are served one at a time: a handler starts when no request is being     *)
(* served, and Respond ends the request.  The variables req, raised,       *)
(* messages, refreshCalls, blockCalls and tasks describe the request being *)
(* served: what was asked, whether an exception left the handler, and the  *)
(* calls the handler made on its collaborators (model methods, the task    *)
(* queue, the message channel).                                            *)
(***************************************************************************)
EXTENDS Integers, Sequences, FiniteSets, TLC

\* Bounds of the model.
NKeys == 4
NUsers == 3
NConfs == 2
NUserClasses == 3

VARIABLES
    \* the request served last and what it did
    req, raised, messages, refreshCalls, blockCalls, tasks,
    \* the User table (one function per column) and the Confirmation table
    email, normalized_email, confirmed, blocked, created_in_backend, confirmations,
    \* the blocked column as it was when the last request started
    prevBlocked,
    \* the change list computed by the last list request
    shown,
    \* the form classes, and the form instance constructed last
    bases, declared, button_order, form, rendered

reqVars == <<req, raised, messages, refreshCalls, blockCalls, tasks>>
userVars == <<email, normalized_email, confirmed, blocked, created_in_backend, confirmations>>
formVars == <<bases, declared, button_order, form, rendered>>
vars == <<reqVars, userVars, prevBlocked, shown, formVars>>

Range(s) == {s[i] : i \in DOMAIN s}

\* The elements of a set of integers as a sequence, largest first / smallest first.
RECURSIVE Descending(_)
Descending(S) ==
    IF S = {} THEN <<>>
    ELSE LET m == CHOOSE x \in S : \A y \in S : y <= x
         IN <<m>> \o Descending(S \ {m})

RECURSIVE Ascending(_)
Ascending(S) ==
    IF S = {} THEN <<>>
    ELSE LET m == CHOOSE x \in S : \A y \in S : x <= y
         IN <<m>> \o Ascending(S \ {m})

NoRequest == [view |-> "none"]
Idle == req = NoRequest

(***************************************************************************)
(* GpgKeyAdmin                                                             *)
(***************************************************************************)
Keys == 1..NKeys

\* GpgKey.fingerprint: one fingerprint per key
Fingerprint(k) == k

\* ordering = ('-created', ): keys are numbered in creation order
GpgKeyQueryset(S) == Descending(S)

\* The handler's running outcome.
GpgStart == [calls |-> <<>>, messages |-> <<>>, raised |-> FALSE]

\* The loop body with the try/except taken away: the exception leaves the handler.
refresh_item_uncaught(st, obj, failing) ==
    IF obj \in failing
    THEN [st EXCEPT !.calls = Append(@, obj), !.raised = TRUE]
    ELSE [st EXCEPT !.calls = Append(@, obj)]

\* The loop body: obj.refresh() inside try, the except branch reports the key.
refresh_item(st, obj, failing) ==
    IF obj \in failing
    THEN [st EXCEPT !.calls = Append(@, obj),
                    !.messages = Append(@, [level |-> "error",
                                            fingerprint |-> Fingerprint(obj)])]
    ELSE [st EXCEPT !.calls = Append(@, obj)]

\* for obj in queryset: ...   (an exception that leaves the body ends the loop)
RECURSIVE refresh_loop(_, _, _)
refresh_loop(st, queryset, failing) ==
    IF queryset = <<>> \/ st.raised THEN st
    ELSE refresh_loop(refresh_item(st, Head(queryset), failing), Tail(queryset), failing)

\* GpgKeyAdmin.refresh over the selected keys; failing: the keys whose refresh() raises.
refresh(selected, failing, view) ==
    LET out == refresh_loop(GpgStart, GpgKeyQueryset(selected), failing)
    IN /\ Idle
       /\ req' = [view |-> view, action |-> "refresh", selected |-> selected,
                  failing |-> failing]
       /\ refreshCalls' = out.calls
       /\ messages' = out.messages
       /\ raised' = out.raised
       /\ UNCHANGED <<blockCalls, tasks, userVars, prevBlocked, shown, formVars>>

\* actions = ['refresh']: the bulk action over the rows selected in the change list
RefreshSelected ==
    \E selected \in SUBSET Keys, failing \in SUBSET Keys :
        refresh(selected, failing, "changelist")

\* change_actions = ['refresh', ]: takes_instance_or_queryset wraps the one key
RefreshOne ==
    \E k \in Keys, failing \in SUBSET Keys :
        refresh({k}, failing, "change")

(***************************************************************************)
(* UserAdmin: the User and Confirmation tables                             *)
(***************************************************************************)
Users == 1..NUsers

\* User.email as the admin form accepts it; "" is the user without an address
Emails == {"", "a@x.org", "A@x.org", "b@x.org"}

\* antispam.utils.normalize_email: the canonical form of an address (case folding)
normalize_email(address) ==
    CASE address = "A@x.org" -> "a@x.org"
      [] OTHER -> address

\* User.domain: the XMPP host of the account
Domain(u) == IF u % 2 = 1 THEN "jabber.at" ELSE "jabber.zone"

\* .constants.PURPOSE_REGISTER and another purpose a confirmation can have
PURPOSE_REGISTER == "register"
Purposes == {PURPOSE_REGISTER, "reset-password"}

\* Confirmation rows: at most one per primary key
ConfPks == 1..NConfs
ConfirmationTables ==
    {{[pk |-> p, user |-> row[p][1], purpose |-> row[p][2]] :
          p \in {q \in ConfPks : row[q] # <<>>}} :
       row \in [ConfPks -> {<<>>} \cup (Users \X Purposes)]}

\* ordering = ('-registered', ): users are numbered in registration order
UserQueryset(S) == Descending(S)

\* UserAdmin.actions and UserAdmin.change_actions
actions == <<"send_registration", "block_users">>
change_actions == <<"block_user", "send_registration">>

\* list.remove(x): the list without the first occurrence of x
RECURSIVE Remove(_, _)
Remove(l, x) ==
    IF l = <<>> THEN <<>>
    ELSE IF Head(l) = x THEN Tail(l)
    ELSE <<Head(l)>> \o Remove(Tail(l), x)

\* UserAdmin.get_change_actions: the actions the change view of one user offers
get_change_actions(user) ==
    LET a1 == IF blocked[user] \/ ~confirmed[user]
              THEN Remove(change_actions, "block_user") ELSE change_actions
    IN IF confirmed[user] \/ blocked[user]
       THEN Remove(a1, "send_registration") ELSE a1

\* The change list offers every entry of actions for every row it shows.
get_actions(user) == actions

(***************************************************************************)
(* UserAdmin.block_user / block_users                                      *)
(***************************************************************************)
\* The running outcome of a handler that blocks users.
BlockStart == [blocked |-> blocked, calls |-> <<>>, raised |-> FALSE]

\* User.block(): the account becomes blocked; failing: the users whose block()
\* raises.  Each call is logged with the row as it was when the call was made.
block(st, u, failing) ==
    LET call == [pk |-> u, confirmed |-> confirmed[u], blocked |-> st.blocked[u]]
    IN IF u \in failing
       THEN [st EXCEPT !.calls = Append(@, call), !.raised = TRUE]
       ELSE [st EXCEPT !.calls = Append(@, call), !.blocked[u] = TRUE]

\* for user in <queryset>: user.block()
RECURSIVE block_each(_, _, _)
block_each(st, queryset, failing) ==
    IF queryset = <<>> \/ st.raised THEN st
    ELSE block_each(block(st, Head(queryset), failing), Tail(queryset), failing)

\* User.objects.exclude(pk=obj.pk).filter(normalized_email=obj.normalized_email)
SameNormalizedEmail(obj) ==
    Ascending({u \in Users \ {obj} : normalized_email[u] = normalized_email[obj]})

\* block_user that forgets the users with the same normalized address
block_user_alone(st, obj, failing) == block(st, obj, failing)

\* UserAdmin.block_user
block_user(st, obj, failing) ==
    LET st1 == block(st, obj, failing)
    IN IF st1.raised THEN st1
       ELSE IF email[obj] # ""
            THEN block_each(st1, SameNormalizedEmail(obj), failing)
            ELSE st1

\* UserAdmin.block_users: for user in queryset: self.block_user(request, user)
RECURSIVE block_users(_, _, _)
block_users(st, queryset, failing) ==
    IF queryset = <<>> \/ st.raised THEN st
    ELSE block_users(block_user(st, Head(queryset), failing), Tail(queryset), failing)

\* What a request that ran a blocking handler leaves behind.
BlockRequest(view, action, selected, failing, out) ==
    /\ Idle
    /\ req' = [view |-> view, action |-> action, selected |-> selected,
               failing |-> failing]
    /\ blocked' = out.blocked
    /\ blockCalls' = out.calls
    /\ raised' = out.raised
    /\ prevBlocked' = blocked
    /\ tasks' = <<>>
    /\ UNCHANGED <<messages, refreshCalls, email, normalized_email, confirmed,
                   created_in_backend, confirmations, shown, formVars>>

\* The Block button of the change view of user obj.
BlockUserChange(Failing) ==
    \E obj \in Users, failing \in Failing :
        /\ "block_user" \in Range(get_change_actions(obj))
        /\ BlockRequest("change", "block_user", {obj}, failing,
                        block_user(BlockStart, obj, failing))

\* "Block selected users" over the rows selected in the change list.
BlockUsersBulk(Failing) ==
    \E selected \in SUBSET Users, failing \in Failing :
        /\ \A u \in selected : "block_users" \in Range(get_actions(u))
        /\ BlockRequest("changelist", "block_users", selected, failing,
                        block_users(BlockStart, UserQueryset(selected), failing))

\* UserAdmin.save_model from the change form, which has set obj.email: the
\* normalized address is recomputed before the row is saved.
save_model(obj, new_email) ==
    /\ Idle
    /\ email' = [email EXCEPT ![obj] = new_email]
    /\ normalized_email' = [normalized_email EXCEPT ![obj] = normalize_email(new_email)]
    /\ req' = [view |-> "change", action |-> "save", selected |-> {obj},
               failing |-> {}]
    /\ raised' = FALSE
    /\ blockCalls' = <<>>
    /\ tasks' = <<>>
    /\ prevBlocked' = blocked
    /\ UNCHANGED <<messages, refreshCalls, confirmed, blocked, created_in_backend,
                   confirmations, shown, formVars>>

SaveUser ==
    \E obj \in Users, new_email \in Emails :
        save_model(obj, new_email)

(***************************************************************************)
(* UserAdmin.send_registration                                             *)
(***************************************************************************)
Schemes == {"http", "https"}
Hosts == {"jabber.at"}

\* '%s://%s' % (request.scheme, request.get_host())
BaseUrl(scheme, host) == scheme \o "://" \o host

\* queryset.filter(created_in_backend=False)
NotCreatedInBackend(queryset) ==
    SelectSeq(queryset, LAMBDA u : created_in_backend[u] = FALSE)

\* user.confirmations.filter(purpose=PURPOSE_REGISTER)
RegisterConfirmations(user) ==
    {c \in confirmations : c.user = user /\ c.purpose = PURPOSE_REGISTER}

\* .first(): the row with the least primary key, None (0) when there is none
First(rows) ==
    IF rows = {} THEN 0
    ELSE (CHOOSE c \in rows : \A d \in rows : c.pk <= d.pk).pk

\* conf = user.confirmations.filter(purpose=PURPOSE_REGISTER).first()
existing_confirmation(user) == First(RegisterConfirmations(user))

\* resend_confirmations.delay(conf.pk)
ResendTask(pk) == [task |-> "resend_confirmations", args |-> <<pk>>]

\* send_confirmation_task.delay(user_pk=..., purpose=..., language='en', to=...,
\*                              base_url=..., hostname=...)
SendTask(user, base_url) ==
    [task |-> "send_confirmation_task", user_pk |-> user,
     purpose |-> PURPOSE_REGISTER, language |-> "en", to |-> email[user],
     base_url |-> base_url, hostname |-> Domain(user)]

\* The running outcome of send_registration.
SendStart == [tasks |-> <<>>, raised |-> FALSE]

\* The loop body; failing: the users for whom the enqueue raises.
send_registration_item(st, user, base_url, failing) ==
    LET conf == existing_confirmation(user)
    IN IF user \in failing THEN [st EXCEPT !.raised = TRUE]
       ELSE IF conf # 0
            THEN [st EXCEPT !.tasks = Append(@, ResendTask(conf))]
            ELSE [st EXCEPT !.tasks = Append(@, SendTask(user, base_url))]

RECURSIVE send_registration_loop(_, _, _, _)
send_registration_loop(st, queryset, base_url, failing) ==
    IF queryset = <<>> \/ st.raised THEN st
    ELSE send_registration_loop(
             send_registration_item(st, Head(queryset), base_url, failing),
             Tail(queryset), base_url, failing)

\* UserAdmin.send_registration without the created_in_backend filter
send_registration_unfiltered(queryset, scheme, host, failing) ==
    send_registration_loop(SendStart, queryset, BaseUrl(scheme, host), failing)

\* UserAdmin.send_registration
send_registration(queryset, scheme, host, failing) ==
    send_registration_loop(SendStart, NotCreatedInBackend(queryset),
                           BaseUrl(scheme, host), failing)

SendRequest(view, selected, scheme, host, failing) ==
    LET out == send_registration(UserQueryset(selected), scheme, host, failing)
    IN /\ Idle
       /\ req' = [view |-> view, action |-> "send_registration",
                  selected |-> selected, failing |-> failing,
                  scheme |-> scheme, host |-> host]
       /\ tasks' = out.tasks
       /\ raised' = out.raised
       /\ blockCalls' = <<>>
       /\ prevBlocked' = blocked
       /\ UNCHANGED <<messages, refreshCalls, userVars, shown, formVars>>

\* The "Send registration email" button of the change view of one user.
SendRegistrationChange(Failing) ==
    \E obj \in Users, scheme \in Schemes, host \in Hosts, failing \in Failing :
        /\ "send_registration" \in Range(get_change_actions(obj))
        /\ SendRequest("change", {obj}, scheme, host, failing)

\* "Send new registration confirmations" over the rows selected in the change list.
SendRegistrationBulk(Failing) ==
    \E selected \in SUBSET Users, scheme \in Schemes, host \in Hosts,
       failing \in Failing :
        /\ \A u \in selected : "send_registration" \in Range(get_actions(u))
        /\ SendRequest("changelist", selected, scheme, host, failing)

(***************************************************************************)
(* The list filters of UserAdmin                                           *)
(***************************************************************************)
\* self.value(): the query parameter, None when it is absent
FilterValues == {"None", "0", "1", "2", ""}

\* ConfirmedFilter.queryset taking every value but "0" for "1"
ConfirmedFilter_queryset_else_yes(value, queryset) ==
    IF value = "0" THEN SelectSeq(queryset, LAMBDA u : ~confirmed[u])
    ELSE SelectSeq(queryset, LAMBDA u : confirmed[u])

\* ConfirmedFilter.queryset
ConfirmedFilter_queryset(value, queryset) ==
    IF value = "0" THEN SelectSeq(queryset, LAMBDA u : ~confirmed[u])
    ELSE IF value = "1" THEN SelectSeq(queryset, LAMBDA u : confirmed[u])
    ELSE queryset

\* CreatedInBackendFilter.queryset
CreatedInBackendFilter_queryset(value, queryset) ==
    IF value = "0" THEN SelectSeq(queryset, LAMBDA u : created_in_backend[u] = FALSE)
    ELSE IF value = "1" THEN SelectSeq(queryset, LAMBDA u : created_in_backend[u] = TRUE)
    ELSE queryset

\* The change list: every list filter is applied in turn to the ordered rows.
ChangeList ==
    \E cval \in FilterValues, bval \in FilterValues :
        /\ Idle
        /\ shown' = [confirmed |-> cval, in_backend |-> bval,
                     rows |-> CreatedInBackendFilter_queryset(bval,
                                  ConfirmedFilter_queryset(cval, UserQueryset(Users)))]
        /\ req' = [view |-> "changelist", action |-> "list", selected |-> {},
                   failing |-> {}]
        /\ raised' = FALSE
        /\ UNCHANGED <<messages, refreshCalls, blockCalls, tasks, userVars,
                       prevBlocked, formVars>>

\* The response is sent: what belonged to the request is gone, the tables stay.
Respond ==
    /\ ~Idle
    /\ req' = NoRequest
    /\ raised' = FALSE
    /\ messages' = <<>>
    /\ refreshCalls' = <<>>
    /\ blockCalls' = <<>>
    /\ tasks' = <<>>
    /\ shown' = <<>>
    /\ prevBlocked' = blocked
    /\ UNCHANGED <<userVars, formVars>>

(***************************************************************************)
(* BootstrapFormMixin                                                      *)
(*                                                                         *)
(* Classes are numbers: Mixin is BootstrapFormMixin, 1..NUserClasses are   *)
(* the form classes derived from it (a class only has bases with a smaller *)
(* number), WrappedForm and Object are the form class the mixin wraps and  *)
(* object, which end every method resolution order.  A dict is a sequence  *)
(* of <<key, value>> pairs with distinct keys, in insertion order.         *)
(***************************************************************************)
Mixin == 0
UserClasses == 1..NUserClasses
FormClass == NUserClasses
WrappedForm == NUserClasses + 1
Object == NUserClasses + 2
Inconsistent == -1

\* A button descriptor: the text and the style class.  The style names who
\* wrote the descriptor: class c, or the caller of the constructor.
Primary == Mixin
CallerStyle == Object + 1
Descriptor(name, style) == [text |-> name, class |-> style]

\* BootstrapFormMixin.default_buttons
MixinButtons == <<"submit">>

\* The default_buttons a derived class can declare (the keys, in order).
DeclaredChoices ==
    {[has |-> FALSE, keys |-> <<>>],
     [has |-> TRUE, keys |-> <<"cancel">>],
     [has |-> TRUE, keys |-> <<"reset", "submit">>]}

\* The button_order a form class can have; the first is the mixin's.
ButtonOrderChoices == {<<"submit">>, <<"cancel", "submit">>}

\* The buttons keyword of a constructor call.
CallerChoices ==
    {[has |-> FALSE, keys |-> <<>>],
     [has |-> TRUE, keys |-> <<"submit">>],
     [has |-> TRUE, keys |-> <<"reset">>]}

\* The bases a class statement of class c can name: one or two distinct classes
\* among the mixin and the classes defined before c.
BaseChoices(c) ==
    LET older == {Mixin} \cup {k \in UserClasses : k < c}
    IN {<<x>> : x \in older}
         \cup {p \in {<<x, y>> : x \in older, y \in older} : p[1] # p[2]}

\* The merge of the C3 linearization: repeatedly the first head that is in no tail.
RECURSIVE Merge(_)
Merge(lists) ==
    LET rest == SelectSeq(lists, LAMBDA l : l # <<>>)
    IN IF rest = <<>> THEN <<>>
       ELSE LET good == {i \in DOMAIN rest :
                            \A j \in DOMAIN rest :
                                Head(rest[i]) \notin Range(Tail(rest[j]))}
            IN IF good = {} THEN <<Inconsistent>>
               ELSE LET i == CHOOSE x \in good : \A y \in good : x <= y
                        h == Head(rest[i])
                    IN <<h>> \o Merge([j \in DOMAIN rest |->
                                          IF Head(rest[j]) = h THEN Tail(rest[j])
                                          ELSE rest[j]])

\* cls.__mro__ among the mixin and its subclasses, for the bases b
RECURSIVE Linearization(_, _)
Linearization(b, c) ==
    IF c = Mixin THEN <<Mixin>>
    ELSE <<c>> \o Merge([i \in 1..Len(b[c]) |-> Linearization(b, b[c][i])]
                          \o <<b[c]>>)

\* Python accepts the class statement only when the linearization exists.
Linearizable(b, c) == Inconsistent \notin Range(Linearization(b, c))

\* cls.__mro__: the wrapped form class and object come last
Mro(c) ==
    IF c \in {WrappedForm, Object} THEN <<c>>
    ELSE Linearization(bases, c) \o <<WrappedForm, Object>>

\* The default_buttons class c declares in its own body.
OwnButtons(c) ==
    IF c = Mixin
    THEN [i \in DOMAIN MixinButtons |->
             <<MixinButtons[i], Descriptor(MixinButtons[i], Primary)>>]
    ELSE [i \in DOMAIN declared[c].keys |->
             <<declared[c].keys[i], Descriptor(declared[c].keys[i], c)>>]

Declares(c) == c = Mixin \/ (c \in UserClasses /\ declared[c].has)

\* getattr(c, 'default_buttons', {}): attribute lookup on the class follows the
\* method resolution order of c itself, so a class that declares nothing answers
\* with the dict of its nearest declaring ancestor.
getattr_default_buttons(c) ==
    LET declaring == SelectSeq(Mro(c), Declares)
    IN IF declaring = <<>> THEN <<>> ELSE OwnButtons(Head(declaring))

DictKeys(d) == {d[i][1] : i \in DOMAIN d}
Get(d, k) == (CHOOSE i \in DOMAIN d : d[i][1] = k)

\* d[k] = v: a new key goes last, a known key keeps its place
Put(d, k, v) ==
    IF k \in DictKeys(d) THEN [d EXCEPT ![Get(d, k)] = <<k, v>>]
    ELSE Append(d, <<k, v>>)

\* d.update(e)
RECURSIVE Update(_, _)
Update(d, e) ==
    IF e = <<>> THEN d
    ELSE Update(Put(d, Head(e)[1], Head(e)[2]), Tail(e))

Reversed(l) == [i \in DOMAIN l |-> l[Len(l) + 1 - i]]

\* for c in reversed(self.__class__.__mro__): buttons.update(getattr(c, ...))
RECURSIVE MergeDefaults(_, _)
MergeDefaults(buttons, classes) ==
    IF classes = <<>> THEN buttons
    ELSE MergeDefaults(Update(buttons, getattr_default_buttons(Head(classes))),
                       Tail(classes))

\* kwargs.pop('buttons', {})
CallerButtons(caller) ==
    [i \in DOMAIN caller.keys |->
        <<caller.keys[i], Descriptor(caller.keys[i], CallerStyle)>>]

\* The keyword arguments __init__ hands to super().__init__: its own named
\* parameters are bound by the signature, everything else is still in kwargs
\* when the call is made, the pop of 'buttons' coming after it.
ForwardedKwargs(caller) == IF caller.has THEN {"buttons"} ELSE {}

\* BootstrapFormMixin.__init__ for a form of class cls; wrapped says whether the
\* constructor of the wrapped form takes keywords it does not know ("lenient")
\* or raises TypeError for them ("strict", as django.forms.BaseForm does).
init(cls, caller, wrapped) ==
    IF ForwardedKwargs(caller) # {} /\ wrapped = "strict"
    THEN [state |-> "error", cls |-> cls, caller |-> caller,
          forwarded |-> ForwardedKwargs(caller), buttons |-> <<>>]
    ELSE [state |-> "constructed", cls |-> cls, caller |-> caller,
          forwarded |-> ForwardedKwargs(caller),
          buttons |-> Update(MergeDefaults(<<>>, Reversed(Mro(cls))),
                             CallerButtons(caller))]

\* order.index(name)
RECURSIVE Index(_, _)
Index(order, name) ==
    IF Head(order) = name THEN 0 ELSE 1 + Index(Tail(order), name)

\* The sort key with the names that are not in the order list sorting last.
SortKeyAbsentLast(order, t) ==
    IF t[1] \in Range(order) THEN Index(order, t[1]) ELSE Len(order)

\* lambda t: order.index(t[0]) if t[0] in order else -1
SortKey(order, t) ==
    IF t[1] \in Range(order) THEN Index(order, t[1]) ELSE -1

\* sorted(items, key=...): a stable sort, by insertion
RECURSIVE Insert(_, _, _)
Insert(sorted, t, order) ==
    IF sorted = <<>> THEN <<t>>
    ELSE IF SortKey(order, Head(sorted)) <= SortKey(order, t)
         THEN <<Head(sorted)>> \o Insert(Tail(sorted), t, order)
         ELSE <<t>> \o sorted

RECURSIVE Sorted(_, _, _)
Sorted(done, items, order) ==
    IF items = <<>> THEN done
    ELSE Sorted(Insert(done, Head(items), order), Tail(items), order)

\* BootstrapFormMixin.get_buttons
get_buttons(buttons, order) == Sorted(<<>>, buttons, order)

NoForm == [state |-> "none", cls |-> FormClass,
           caller |-> [has |-> FALSE, keys |-> <<>>], forwarded |-> {},
           buttons |-> <<>>]
NotRendered == [done |-> FALSE, buttons |-> <<>>]

\* A form of the most derived class is constructed.
Construct ==
    \E caller \in CallerChoices, wrapped \in {"strict", "lenient"} :
        /\ form' = init(FormClass, caller, wrapped)
        /\ rendered' = NotRendered
        /\ UNCHANGED <<bases, declared, button_order, reqVars, userVars,
                       prevBlocked, shown>>

\* The template asks the form for its buttons.
GetButtons ==
    /\ form.state = "constructed"
    /\ rendered' = [done |-> TRUE, buttons |-> get_buttons(form.buttons, button_order)]
    /\ UNCHANGED <<bases, declared, button_order, form, reqVars, userVars,
                   prevBlocked, shown>>

\* Any hierarchy Python accepts in which every class is an ancestor of the form
\* class, any declaration of default_buttons, any button_order.
AnyForms ==
    /\ bases \in {b \in [UserClasses -> UNION {BaseChoices(c) : c \in UserClasses}] :
                     /\ \A c \in UserClasses :
                            b[c] \in BaseChoices(c) /\ Linearizable(b, c)
                     /\ UserClasses \subseteq Range(Linearization(b, FormClass))}
    /\ declared \in [UserClasses -> DeclaredChoices]
    /\ button_order \in ButtonOrderChoices
    /\ form = NoForm
    /\ rendered = NotRendered

(***************************************************************************)
(* Initial states and specifications of the admin panel                    *)
(***************************************************************************)
IdleUsers ==
    /\ email = [u \in 1..NUsers |-> ""]
    /\ normalized_email = [u \in 1..NUsers |-> ""]
    /\ confirmed = [u \in 1..NUsers |-> FALSE]
    /\ blocked = [u \in 1..NUsers |-> FALSE]
    /\ created_in_backend = [u \in 1..NUsers |-> FALSE]
    /\ confirmations = {}
    /\ prevBlocked = blocked
    /\ shown = <<>>

IdleForms ==
    /\ bases = [c \in UserClasses |-> <<Mixin>>]
    /\ declared = [c \in UserClasses |-> [has |-> FALSE, keys |-> <<>>]]
    /\ button_order = <<"submit">>
    /\ form = NoForm
    /\ rendered = NotRendered

IdleRequest ==
    /\ req = NoRequest
    /\ raised = FALSE
    /\ messages = <<>>
    /\ refreshCalls = <<>>
    /\ blockCalls = <<>>
    /\ tasks = <<>>

\* The addresses the tables of the narrower specifications start from: the first
\* two users share a normalized address.
InitialEmail(u) ==
    CASE u % 3 = 1 -> "a@x.org" [] u % 3 = 2 -> "A@x.org" [] OTHER -> "b@x.org"

\* A collaborator call that raises: for no user, or for one user.
NoFault == {{}}
OneFault == {{}} \cup {{u} : u \in Users}

\* UserAdmin as a whole: any coherent User table (the normalized address is the
\* one save_model stores), no confirmations, nobody created in the backend.
InitUser ==
    /\ IdleRequest /\ IdleForms
    /\ email \in [Users -> Emails]
    /\ normalized_email = [u \in Users |-> normalize_email(email[u])]
    /\ confirmed \in [Users -> BOOLEAN]
    /\ blocked \in [Users -> BOOLEAN]
    /\ created_in_backend = [u \in Users |-> FALSE]
    /\ confirmations = {}
    /\ prevBlocked = blocked
    /\ shown = <<>>
NextUser ==
    \/ BlockUserChange(NoFault)
    \/ BlockUsersBulk(NoFault)
    \/ SendRegistrationChange(NoFault)
    \/ SendRegistrationBulk(NoFault)
    \/ SaveUser
    \/ Respond
SpecUser == InitUser /\ [][NextUser]_vars

\* The block actions and the change form alone, over the same tables.
InitBlock == InitUser
NextBlock ==
    \/ BlockUserChange(NoFault)
    \/ BlockUsersBulk(NoFault)
    \/ SaveUser
    \/ Respond
SpecBlock == InitBlock /\ [][NextBlock]_vars

\* The registration action over any Confirmation table and any set of users
\* created in the backend; nobody is confirmed or blocked yet.
InitRegistration ==
    /\ IdleRequest /\ IdleForms
    /\ email = [u \in Users |-> InitialEmail(u)]
    /\ normalized_email = [u \in Users |-> normalize_email(email[u])]
    /\ confirmed = [u \in Users |-> FALSE]
    /\ blocked = [u \in Users |-> FALSE]
    /\ created_in_backend \in [Users -> BOOLEAN]
    /\ confirmations \in ConfirmationTables
    /\ prevBlocked = blocked
    /\ shown = <<>>
NextRegistration ==
    \/ SendRegistrationChange(NoFault)
    \/ SendRegistrationBulk(NoFault)
    \/ Respond
SpecRegistration == InitRegistration /\ [][NextRegistration]_vars

\* The bulk handlers when a collaborator call (User.block(), the enqueue of a
\* task) can raise.
InitFault ==
    /\ IdleRequest /\ IdleForms
    /\ email = [u \in Users |-> InitialEmail(u)]
    /\ normalized_email = [u \in Users |-> normalize_email(email[u])]
    /\ confirmed = [u \in Users |-> TRUE]
    /\ blocked = [u \in Users |-> FALSE]
    /\ created_in_backend \in [Users -> BOOLEAN]
    /\ confirmations = {}
    /\ prevBlocked = blocked
    /\ shown = <<>>
NextFault ==
    \/ BlockUsersBulk(OneFault)
    \/ SendRegistrationBulk(OneFault)
    \/ Respond
SpecFault == InitFault /\ [][NextFault]_vars

\* The change list of users.
InitFilter ==
    /\ IdleRequest /\ IdleForms
    /\ email = [u \in Users |-> InitialEmail(u)]
    /\ normalized_email = [u \in Users |-> normalize_email(email[u])]
    /\ confirmed \in [Users -> BOOLEAN]
    /\ blocked = [u \in Users |-> FALSE]
    /\ created_in_backend \in [Users -> BOOLEAN]
    /\ confirmations = {}
    /\ prevBlocked = blocked
    /\ shown = <<>>
NextFilter == ChangeList \/ Respond
SpecFilter == InitFilter /\ [][NextFilter]_vars

NextForm == Construct \/ GetButtons
InitForm == IdleRequest /\ IdleUsers /\ AnyForms
SpecForm == InitForm /\ [][NextForm]_vars

InitGpg == IdleRequest /\ IdleUsers /\ IdleForms
NextGpg == RefreshSelected \/ RefreshOne \/ Respond
SpecGpg == InitGpg /\ [][NextGpg]_vars

\* C1: GpgKeyAdmin.refresh invokes refresh() on every selected key, whether or not
\* it (or an earlier key) raises, produces exactly one error notification per
\* raising selected key and none for the others, and returns without raising.
C1_RefreshIsolatesFailures ==
    req.view # "none" /\ req.action = "refresh" =>
        /\ Range(refreshCalls) = req.selected
        /\ Len(refreshCalls) = Cardinality(req.selected)
        /\ \A k \in Keys :
               Cardinality({i \in DOMAIN messages :
                               messages[i].fingerprint = Fingerprint(k)})
                 = IF k \in req.selected /\ k \in req.failing THEN 1 ELSE 0
        /\ \A i \in DOMAIN messages : messages[i].level = "error"
        /\ ~raised

\* A request over three or more keys in which the first key raises, a later key
\* raises too and a key after a raising one does not.
C1_Witness ==
    /\ req.view = "changelist" /\ req.action = "refresh"
    /\ Cardinality(req.selected) >= 3
    /\ refreshCalls[1] \in req.failing
    /\ \E i, j \in DOMAIN refreshCalls :
           /\ 1 < i /\ i < j
           /\ refreshCalls[i] \in req.failing
           /\ refreshCalls[j] \notin req.failing
    /\ Len(messages) = 2
(***************************************************************************)
(* Claims about UserAdmin                                                  *)
(***************************************************************************)
\* The entry points through which the admin offers an action for user u.
Offered(u) == Range(get_change_actions(u)) \cup Range(get_actions(u))

\* C2: for a user whose confirmed field is set or who is blocked, no entry point
\* of the admin (the change actions of the user, the bulk actions of the change
\* list) makes send_registration available.
C2_SendRegistrationNeverOffered ==
    \A u \in Users :
        confirmed[u] \/ blocked[u] => "send_registration" \notin Offered(u)

\* The users a block request over the set S reaches according to the claim as
\* written: S and every user sharing the normalized address of a member of S.
SameAddressAs(S) ==
    {v \in Users : \E u \in S : normalized_email[v] = normalized_email[u]}

\* The same, the users of S without an address reaching nobody else.
SameAddressAsGuarded(S) ==
    {v \in Users : \E u \in S : /\ email[u] # ""
                                /\ normalized_email[v] = normalized_email[u]}

IsBlockRequest == req.view # "none" /\ req.action \in {"block_user", "block_users"}

\* C3 as written: Block User applied to U blocks U and every other user with the
\* normalized address of U, whatever the address of U, and nobody else.
C3_BlocksSameNormalizedEmail ==
    IsBlockRequest =>
        \A v \in Users :
            blocked[v] = (prevBlocked[v] \/ v \in req.selected
                                         \/ v \in SameAddressAs(req.selected))

\* C3 amended: Block User applied to U blocks U; when the address of U is not
\* empty it also blocks every other user with the normalized address of U, and
\* when it is empty it blocks nobody else; the users with another normalized
\* address keep their blocked state.
C3_BlocksSameNormalizedEmailOfAddressed ==
    IsBlockRequest =>
        \A v \in Users :
            blocked[v] = (prevBlocked[v] \/ v \in req.selected
                                         \/ v \in SameAddressAsGuarded(req.selected))

\* The Block button used on a user with an address: another user who was not
\* blocked has the same normalized address written differently and is blocked
\* now, and a third user with another normalized address is still not blocked.
C3_Witness ==
    /\ req.view = "change" /\ req.action = "block_user"
    /\ \E u \in req.selected, v, w \in Users :
           /\ email[u] # "" /\ v # u /\ email[v] # email[u]
           /\ normalized_email[v] = normalized_email[u]
           /\ ~prevBlocked[v] /\ blocked[v]
           /\ normalized_email[w] # normalized_email[u]
           /\ ~prevBlocked[w] /\ ~blocked[w]

\* The tasks of the last request that are for user u.
TasksFor(u) ==
    {i \in DOMAIN tasks :
        \/ /\ tasks[i].task = "send_confirmation_task"
           /\ tasks[i].user_pk = u
        \/ /\ tasks[i].task = "resend_confirmations"
           /\ \E c \in confirmations : c.user = u /\ tasks[i].args = <<c.pk>>}

\* C4: when one item of a bulk handler fails with an exception, the failure is
\* caught for that item, the other items are still processed and no exception
\* leaves the handler.
C4_BulkFailuresIsolated ==
    req.view = "changelist" =>
        /\ ~raised
        /\ req.action = "block_users" =>
               req.selected \subseteq {blockCalls[i].pk : i \in DOMAIN blockCalls}
        /\ req.action = "send_registration" =>
               \A u \in req.selected :
                   ~created_in_backend[u] /\ u \notin req.failing =>
                       TasksFor(u) # {}

\* C8: send_registration enqueues exactly one task per selected user who was not
\* created in the backend and none for the others: the resend of a registration
\* confirmation of the user when there is one, else a new confirmation for the
\* user with purpose register, language en and the base URL of the request; no
\* user is blocked by it.
C8_OneTaskPerUser ==
    req.view # "none" /\ req.action = "send_registration" =>
        /\ \A u \in Users :
               Cardinality(TasksFor(u)) =
                   IF u \in req.selected /\ ~created_in_backend[u] THEN 1 ELSE 0
        /\ Len(tasks) =
               Cardinality({u \in req.selected : ~created_in_backend[u]})
        /\ \A i \in DOMAIN tasks : \E u \in req.selected :
               /\ i \in TasksFor(u)
               /\ IF \E c \in confirmations :
                         c.user = u /\ c.purpose = PURPOSE_REGISTER
                  THEN /\ tasks[i].task = "resend_confirmations"
                       /\ \E c \in confirmations :
                              /\ c.user = u /\ c.purpose = PURPOSE_REGISTER
                              /\ tasks[i].args = <<c.pk>>
                  ELSE tasks[i] =
                           [task |-> "send_confirmation_task", user_pk |-> u,
                            purpose |-> "register", language |-> "en",
                            to |-> email[u],
                            base_url |-> req.scheme \o "://" \o req.host,
                            hostname |-> Domain(u)]
        /\ blocked = prevBlocked
        /\ ~raised

\* A bulk request over a user created in the backend, a user with a confirmation
\* of another purpose only and a user with a registration confirmation.
C8_Witness ==
    /\ req.view = "changelist" /\ req.action = "send_registration"
    /\ req.scheme = "https"
    /\ \E u, v, w \in req.selected :
           /\ created_in_backend[u]
           /\ ~created_in_backend[v] /\ ~created_in_backend[w]
           /\ \E c \in confirmations : c.user = v /\ c.purpose # PURPOSE_REGISTER
           /\ \A c \in confirmations : c.user # w
    /\ Len(tasks) = 2
    /\ \E i, k \in DOMAIN tasks :
           /\ tasks[i].task = "send_confirmation_task"
           /\ tasks[k].task = "send_confirmation_task"
           /\ i # k

\* C9: both list filters return the queryset unchanged for a value outside
\* {"0", "1"}, and for "0" and "1" two disjoint parts of it that make up the whole.
Querysets == {UserQueryset(S) : S \in SUBSET Users}
C9_FiltersPartition ==
    /\ \A queryset \in Querysets :
           /\ \A value \in FilterValues \ {"0", "1"} :
                  /\ ConfirmedFilter_queryset(value, queryset) = queryset
                  /\ CreatedInBackendFilter_queryset(value, queryset) = queryset
           /\ LET c0 == Range(ConfirmedFilter_queryset("0", queryset))
                  c1 == Range(ConfirmedFilter_queryset("1", queryset))
                  b0 == Range(CreatedInBackendFilter_queryset("0", queryset))
                  b1 == Range(CreatedInBackendFilter_queryset("1", queryset))
              IN /\ c0 \cap c1 = {} /\ c0 \cup c1 = Range(queryset)
                 /\ b0 \cap b1 = {} /\ b0 \cup b1 = Range(queryset)
                 /\ c0 = {u \in Range(queryset) : ~confirmed[u]}
                 /\ b1 = {u \in Range(queryset) : created_in_backend[u]}
    /\ req.view = "changelist" /\ req.action = "list" =>
           Range(shown.rows) =
               {u \in Users :
                   /\ shown.confirmed = "0" => ~confirmed[u]
                   /\ shown.confirmed = "1" => confirmed[u]
                   /\ shown.in_backend = "0" => ~created_in_backend[u]
                   /\ shown.in_backend = "1" => created_in_backend[u]}

\* A change list with an unknown value for one filter and "1" for the other that
\* shows some users and hides others.
C9_Witness ==
    /\ req.view = "changelist" /\ req.action = "list"
    /\ shown.confirmed = "2" /\ shown.in_backend = "1"
    /\ shown.rows # <<>>
    /\ Len(shown.rows) < NUsers
    /\ \E u \in Users : confirmed[u] /\ u \in Range(shown.rows)

\* C10: block() is only ever called on a user who is confirmed and not yet
\* blocked when the call is made.
C10_BlockOnlyConfirmedUnblocked ==
    \A i \in DOMAIN blockCalls :
        blockCalls[i].confirmed /\ ~blockCalls[i].blocked
(***************************************************************************)
(* Claims about BootstrapFormMixin                                         *)
(***************************************************************************)
\* The classes of the ancestry of the form class that declare button name,
\* most specific first.
DeclaringClasses(name) ==
    SelectSeq(Mro(form.cls),
              LAMBDA c : Declares(c) /\ name \in DictKeys(OwnButtons(c)))

ButtonNames == {"submit", "cancel", "reset"}

\* C5: a form constructed without a caller override has, for every button name,
\* the descriptor declared by the most specific class of its ancestry that
\* declares the name, and it has no other button.
C5_MostSpecificDeclarationWins ==
    form.state = "constructed" /\ ~form.caller.has =>
        \A name \in ButtonNames :
            IF DeclaringClasses(name) = <<>>
            THEN name \notin DictKeys(form.buttons)
            ELSE /\ name \in DictKeys(form.buttons)
                 /\ form.buttons[Get(form.buttons, name)][2] =
                        LET c == Head(DeclaringClasses(name))
                        IN OwnButtons(c)[Get(OwnButtons(c), name)][2]

\* C6: a constructor call with a buttons keyword is accepted, the keyword is not
\* forwarded to the constructor of the wrapped form, every name the caller gives
\* resolves to the caller's descriptor and the other names keep the descriptor
\* the classes give them.
C6_CallerButtonsConsumed ==
    form.state # "none" /\ form.caller.has =>
        /\ form.state = "constructed"
        /\ "buttons" \notin form.forwarded
        /\ \A i \in DOMAIN form.buttons :
               LET name == form.buttons[i][1]
               IN form.buttons[i][2] =
                      IF name \in Range(form.caller.keys)
                      THEN Descriptor(name, CallerStyle)
                      ELSE LET d == MergeDefaults(<<>>, Reversed(Mro(form.cls)))
                           IN d[Get(d, name)][2]
        /\ Range(form.caller.keys) \subseteq DictKeys(form.buttons)

\* The position of button name in the sequence get_buttons returned.
Place(name) == CHOOSE i \in DOMAIN rendered.buttons : rendered.buttons[i][1] = name

\* C7: get_buttons returns every button of the merged mapping exactly once; the
\* names of button_order come in the order of that list, every name that is not
\* in button_order comes before all of them, and the names that are not in it
\* keep the order in which they arrived in the mapping.
C7_ButtonOrder ==
    rendered.done =>
        /\ Len(rendered.buttons) = Len(form.buttons)
        /\ Range(rendered.buttons) = Range(form.buttons)
        /\ \A i, j \in DOMAIN form.buttons :
               LET a == form.buttons[i][1]
                   b == form.buttons[j][1]
                   listed(n) == n \in Range(button_order)
                   at(n) == CHOOSE k \in DOMAIN button_order : button_order[k] = n
               IN /\ listed(a) /\ listed(b) /\ at(a) < at(b) => Place(a) < Place(b)
                  /\ ~listed(a) /\ listed(b) => Place(a) < Place(b)
                  /\ ~listed(a) /\ ~listed(b) /\ i < j => Place(a) < Place(b)

\* A rendered form with two buttons that are not in button_order, which arrived
\* in the mapping after a listed one, and whose listed buttons changed places.
C7_Witness ==
    /\ rendered.done
    /\ button_order = <<"cancel", "submit">>
    /\ Len(form.buttons) = 3
    /\ form.buttons[1][1] = "submit"
    /\ form.buttons[2][1] = "reset"
    /\ form.buttons[3][1] = "cancel"
    /\ rendered.buttons[1][1] = "reset"
====
